---- MODULE Spec2Model ----
(***************************************************************************)
(* The robot-vacuum service: a request handler walks a robot over a        *)
(* clamped 2D grid (Execution::calculate over Position::shift), stores the *)
(* outcome as one row (Execution::save) and answers with the stored row.   *)
(*                                                                         *)
(* Coordinates are Rust i32.  Integer overflow is build dependent: with    *)
(* overflow checks (debug profile) `+` and `abs` panic, without them       *)
(* (release profile) they wrap.  The build is fixed for a whole run and is *)
(* the state variable overflow_checks.                                     *)
(***************************************************************************)
EXTENDS Integers, Sequences, FiniteSets, TLC

\* ---------------------------------------------------------------- bounds
MaxMoves == 2
MaxSteps == 2
MaxElapsed == 1
MaxStamp == 1
NumHandlers == 2

\* ------------------------------------------------------------- constants
\* types.rs: pub const FIELD_LIMIT: i32 = 100000
FIELD_LIMIT == 100000
\* execution.rs: pub const MICROSECONDS: i32 = 1000000
MICROSECONDS == 1000000
\* the range of i32 (Position.x, Position.y)
I32_MAX == 2147483647
I32_MIN == -2147483647 - 1

\* ------------------------------------------------------ Option and Result
None == [some |-> FALSE]
Some(v) == [some |-> TRUE, val |-> v]
Ok(v) == [ok |-> TRUE, val |-> v]
\* a panic raised while evaluating an expression (no value)
Panicked == [ok |-> FALSE]
\* Result::Err(SqlError)
Err == [ok |-> FALSE, err |-> "SqlError"]

\* ------------------------------------------------------------- types.rs
Position(x, y) == [x |-> x, y |-> y]

Directions == {"North", "East", "South", "West"}

\* impl From<&Direction> for Position
FromDirection(d) ==
    CASE d = "North" -> Position(0, 1)
      [] d = "East"  -> Position(1, 0)
      [] d = "West"  -> Position(-1, 0)
      [] d = "South" -> Position(0, -1)

\* the mathematical sum a + b leaves the i32 range
AddOverflows(a, b) ==
    \/ b > 0 /\ a > I32_MAX - b
    \/ b < 0 /\ a < I32_MIN - b

\* a + b modulo 2^32 in two's complement, for a sum that leaves the range
WrappedSum(a, b) ==
    IF b > 0 THEN I32_MIN + ((a - (I32_MAX - b)) - 1)
             ELSE I32_MAX - (((I32_MIN - b) - a) - 1)

\* i32 `+`: panics on overflow when overflow checks are on, wraps otherwise
I32Add(checks, a, b) ==
    IF AddOverflows(a, b)
    THEN IF checks THEN Panicked ELSE Ok(WrappedSum(a, b))
    ELSE Ok(a + b)

\* i32::abs: abs(i32::MIN) panics with overflow checks, else is i32::MIN
I32Abs(checks, a) ==
    IF a = I32_MIN
    THEN IF checks THEN Panicked ELSE Ok(I32_MIN)
    ELSE IF a < 0 THEN Ok(-a) ELSE Ok(a)

\* impl Add for Position: x first, then y
Add(checks, self, position) ==
    LET x == I32Add(checks, self.x, position.x)
    IN  IF ~x.ok THEN Panicked
        ELSE LET y == I32Add(checks, self.y, position.y)
             IN  IF ~y.ok THEN Panicked ELSE Ok(Position(x.val, y.val))

\* a plausible slip: the bound test is off by one
OutOfBoundsOffByOne(checks, self) ==
    LET ax == I32Abs(checks, self.x)
    IN  IF ~ax.ok THEN Panicked
        ELSE IF ax.val > FIELD_LIMIT + 1 THEN Ok(TRUE)
        ELSE LET ay == I32Abs(checks, self.y)
             IN  IF ~ay.ok THEN Panicked ELSE Ok(ay.val > FIELD_LIMIT + 1)

\* Position::out_of_bounds: `||` evaluates y.abs() only when x passed
OutOfBounds(checks, self) ==
    LET ax == I32Abs(checks, self.x)
    IN  IF ~ax.ok THEN Panicked
        ELSE IF ax.val > FIELD_LIMIT THEN Ok(TRUE)
        ELSE LET ay == I32Abs(checks, self.y)
             IN  IF ~ay.ok THEN Panicked ELSE Ok(ay.val > FIELD_LIMIT)

\* a plausible slip: the bound test only looks at the x axis
ShiftXOnly(checks, self, direction) ==
    LET destination == Add(checks, self, FromDirection(direction))
    IN  IF ~destination.ok THEN Panicked
        ELSE LET ax == I32Abs(checks, destination.val.x)
             IN  IF ~ax.ok THEN Panicked
                 ELSE IF ax.val > FIELD_LIMIT THEN Ok(self)
                      ELSE Ok(destination.val)

\* Position::shift
Shift(checks, self, direction) ==
    LET movement == FromDirection(direction)
        destination == Add(checks, self, movement)
    IN  IF ~destination.ok THEN Panicked
        ELSE LET oob == OutOfBounds(checks, destination.val)
             IN  IF ~oob.ok THEN Panicked
                 ELSE IF ~oob.val THEN Ok(destination.val) ELSE Ok(self)

\* the range the grid is meant to have
InField(p) ==
    /\ -FIELD_LIMIT <= p.x /\ p.x <= FIELD_LIMIT
    /\ -FIELD_LIMIT <= p.y /\ p.y <= FIELD_LIMIT

\* ------------------------------------------------------------ the inputs
Handlers == 1..NumHandlers

StepCounts == -1..MaxSteps

\* types.rs Command { direction, steps: i32 }
Commands == [direction : Directions, steps : StepCounts]

CommandLists(n) == UNION {[1..k -> Commands] : k \in 0..n}

\* start cells: inside, on and next to the grid's edge, and at the i32 limits
EdgeCoords == {I32_MIN, -FIELD_LIMIT - 2,
               -FIELD_LIMIT - 1, -FIELD_LIMIT, 0, FIELD_LIMIT - 1,
               FIELD_LIMIT, FIELD_LIMIT + 1, FIELD_LIMIT + 2, I32_MAX}

AnyStarts == {Position(c, 0) : c \in EdgeCoords}
                 \cup {Position(0, c) : c \in EdgeCoords}
                 \cup {Position(FIELD_LIMIT + 2, I32_MIN),
                       Position(I32_MIN, FIELD_LIMIT + 2)}

WalkStarts == {Position(0, 0), Position(FIELD_LIMIT, FIELD_LIMIT - 1),
               Position(-FIELD_LIMIT, -FIELD_LIMIT)}

\* execution.rs test calculates_row_items_10_west_10_east
Request10West10East ==
    [start |-> Position(-10, 0),
     commands |-> <<[direction |-> "West", steps |-> 10],
                    [direction |-> "East", steps |-> 10]>>]

\* execution.rs test calculates_row_items_122_west_70_east_22_north
Request122West70East22North ==
    [start |-> Position(-10, 0),
     commands |-> <<[direction |-> "West", steps |-> 122],
                    [direction |-> "East", steps |-> 70],
                    [direction |-> "North", steps |-> 22]>>]

\* api.rs Request { start, commands }: every start with at most one move,
\* the walk starts with every move list of up to MaxMoves moves, and the
\* requests of the unit tests
Requests ==
    [start : AnyStarts, commands : CommandLists(1)]
        \cup [start : WalkStarts, commands : CommandLists(MaxMoves)]
        \cup {Request10West10East, Request122West70East22North}

\* the requests handled in parallel
ParRequests ==
    {[start |-> Position(FIELD_LIMIT, 0),
      commands |-> <<[direction |-> "East", steps |-> 1],
                     [direction |-> "West", steps |-> 1]>>],
     [start |-> Position(0, 0),
      commands |-> <<[direction |-> "North", steps |-> 1]>>],
     [start |-> Position(I32_MAX, 0),
      commands |-> <<[direction |-> "East", steps |-> 1]>>]}

\* the inputs of Position::shift taken as a pure function
ShiftInputs == {Position(x, y) : x \in EdgeCoords, y \in EdgeCoords}

NoRequest == [start |-> Position(0, 0), commands |-> <<>>]

\* Utc::now() is read twice; the microseconds between the two reads
Elapsed == 0..MaxElapsed
\* the store's clock at an insert
Stamps == 1..MaxStamp

\* ------------------------------------------------------------- the state
VARIABLES
    overflow_checks, \* the build: TRUE = overflow checks on (debug profile)
    request,         \* handler -> the Request it was given
    pc,              \* handler -> where it is in handle_enter_path
    execution,       \* handler -> the Execution it computes (calculate's self)
    position,        \* handler -> calculate's `position`
    cleaned,         \* handler -> calculate's `cleaned` HashSet
    cmd_idx,         \* handler -> index of the command the outer loop is at
    step_idx,        \* handler -> iterations the inner loop has done
    trail,           \* handler -> the positions after each executed unit step
    saved,           \* handler -> what save returned: None, Some(Ok(row)/Err)
    response,        \* handler -> the Response it answered with
    store,           \* the rows of table executions, in insertion order
    statements,      \* the statements the store received, in order
    shift_self,      \* Position::shift as a pure function: its argument
    shift_dir,       \*   the direction it was last called with
    shift_out        \*   and what that call returned

vars == <<overflow_checks, request, pc, execution, position, cleaned, cmd_idx,
          step_idx, trail, saved, response, store, statements,
          shift_self, shift_dir, shift_out>>

handler_vars == <<request, pc, execution, position, cleaned, cmd_idx,
                  step_idx, trail, saved, response, store, statements>>

shift_vars == <<shift_self, shift_dir, shift_out>>

\* #[derive(Default)] Execution
ExecutionDefault ==
    [id |-> None, timestamp |-> None, commands |-> 0, result |-> 0,
     duration |-> None]

\* the f64 `d as f64 / MICROSECONDS as f64`, kept as the exact quotient
Seconds(micros) == <<micros, MICROSECONDS>>

\* the command the outer loop of calculate is at
CurrentCommand(w) == request[w].commands[cmd_idx[w]]

\* ------------------------------------- Execution::calculate (execution.rs)
\* a plausible slip: only the moves that take a step are counted
CommandCountNonEmpty(w) ==
    Cardinality({i \in DOMAIN request[w].commands :
                    request[w].commands[i].steps > 0})

\* self.commands = request.commands.len() as i32
CommandCount(w) == Len(request[w].commands)

\* the head of calculate: commands.len(), the start cell, the empty set
CalculateBegin(w) ==
    /\ pc[w] = "received"
    /\ execution' = [execution EXCEPT ![w].commands = CommandCount(w)]
    /\ position' = [position EXCEPT ![w] = request[w].start]
    /\ cleaned' = [cleaned EXCEPT ![w] = {}]
    /\ cmd_idx' = [cmd_idx EXCEPT ![w] = 1]
    /\ step_idx' = [step_idx EXCEPT ![w] = 0]
    /\ pc' = [pc EXCEPT ![w] = "walking"]
    /\ UNCHANGED <<overflow_checks, request, trail, saved, response, store,
                   statements, shift_vars>>

\* a plausible slip: one visited set shared by every walk
InsertShared(set, w, p) == [v \in Handlers |-> set[v] \cup {p}]

\* cleaned.insert(position) on the walk's own HashSet
Insert(set, w, p) == [set EXCEPT ![w] = @ \cup {p}]

\* a plausible slip: the cell is recorded before the robot moves
StepBodyInsertFirst(w) ==
    LET shifted == Shift(overflow_checks, position[w], CurrentCommand(w).direction)
    IN  IF shifted.ok
        THEN /\ position' = [position EXCEPT ![w] = shifted.val]
             /\ cleaned' = Insert(cleaned, w, position[w])
             /\ trail' = [trail EXCEPT ![w] = Append(@, shifted.val)]
             /\ step_idx' = [step_idx EXCEPT ![w] = @ + 1]
             /\ UNCHANGED pc
        ELSE /\ pc' = [pc EXCEPT ![w] = "overflow_panic"]
             /\ UNCHANGED <<position, cleaned, trail, step_idx>>

\* the body of the inner loop: shift, then insert; a panic unwinds the task
StepBody(w) ==
    LET shifted == Shift(overflow_checks, position[w], CurrentCommand(w).direction)
    IN  IF shifted.ok
        THEN /\ position' = [position EXCEPT ![w] = shifted.val]
             /\ cleaned' = Insert(cleaned, w, shifted.val)
             /\ trail' = [trail EXCEPT ![w] = Append(@, shifted.val)]
             /\ step_idx' = [step_idx EXCEPT ![w] = @ + 1]
             /\ UNCHANGED pc
        ELSE /\ pc' = [pc EXCEPT ![w] = "overflow_panic"]
             /\ UNCHANGED <<position, cleaned, trail, step_idx>>

\* a plausible slip: the range written 0..=command.steps
StepsPendingFromZero(w) == step_idx[w] <= CurrentCommand(w).steps

\* a plausible slip: a negative step count taken by its magnitude
StepsPendingMagnitude(w) ==
    step_idx[w] < (IF CurrentCommand(w).steps < 0
                   THEN -CurrentCommand(w).steps ELSE CurrentCommand(w).steps)

\* `1..=command.steps` has an iteration left (none at all when steps <= 0)
StepsPending(w) == step_idx[w] < CurrentCommand(w).steps

\* one iteration of `for _ in 1..=command.steps`
CalculateStep(w) ==
    /\ pc[w] = "walking"
    /\ cmd_idx[w] <= Len(request[w].commands)
    /\ StepsPending(w)
    /\ StepBody(w)
    /\ UNCHANGED <<overflow_checks, request, execution, cmd_idx, saved,
                   response, store, statements, shift_vars>>

\* the inner range is exhausted (at once when steps <= 0): next command
CalculateNextCommand(w) ==
    /\ pc[w] = "walking"
    /\ cmd_idx[w] <= Len(request[w].commands)
    /\ ~StepsPending(w)
    /\ cmd_idx' = [cmd_idx EXCEPT ![w] = @ + 1]
    /\ step_idx' = [step_idx EXCEPT ![w] = 0]
    /\ UNCHANGED <<overflow_checks, request, pc, execution, position, cleaned,
                   trail, saved, response, store, statements, shift_vars>>

\* a plausible slip: the start cell is counted as cleaned
ResultOfCountingStart(w) == Cardinality(cleaned[w] \cup {request[w].start})

\* self.result = cleaned.len() as i32
ResultOf(w) == Cardinality(cleaned[w])

\* the tail of calculate: set_duration, then the result
CalculateEnd(w) ==
    /\ pc[w] = "walking"
    /\ cmd_idx[w] > Len(request[w].commands)
    /\ \E micros \in Elapsed :
          execution' = [execution EXCEPT ![w].duration = Some(Seconds(micros)),
                                         ![w].result = ResultOf(w)]
    /\ pc' = [pc EXCEPT ![w] = "computed"]
    /\ UNCHANGED <<overflow_checks, request, position, cleaned, cmd_idx,
                   step_idx, trail, saved, response, store, statements,
                   shift_vars>>

\* ----------------------------------------- Execution::save (execution.rs)
\* a plausible slip: commands and result bound in the wrong order
BindSwapped(w) ==
    <<execution[w].result, execution[w].commands, execution[w].duration>>

\* .bind(self.commands).bind(self.result).bind(self.duration.clone())
Bind(w) ==
    <<execution[w].commands, execution[w].result, execution[w].duration>>

\* the store runs `insert into executions (commands, result, duration)
\* values ($1, $2, $3) returning *`: it assigns the next identity and its
\* clock's time, keeps the three values, and returns the new row
InsertedRow(rows, values, stamp) ==
    [id |-> Some(Len(rows) + 1), timestamp |-> Some(stamp),
     commands |-> values[1], result |-> values[2], duration |-> values[3]]

\* a plausible slip: save writes the returned row into the record itself
SaveOkInPlace(w) ==
    /\ pc[w] = "computed"
    /\ \E stamp \in Stamps :
          LET row == InsertedRow(store, Bind(w), stamp)
          IN  /\ store' = Append(store, row)
              /\ statements' = Append(statements,
                    [by |-> w, values |-> Bind(w), ok |-> TRUE])
              /\ saved' = [saved EXCEPT ![w] = Some(Ok(row))]
              /\ execution' = [execution EXCEPT ![w] = row]
    /\ pc' = [pc EXCEPT ![w] = "saved"]
    /\ UNCHANGED <<overflow_checks, request, position, cleaned,
                   cmd_idx, step_idx, trail, response, shift_vars>>

\* save, the insert succeeding: fetch_one returns the row, save returns Ok
SaveOk(w) ==
    /\ pc[w] = "computed"
    /\ \E stamp \in Stamps :
          LET row == InsertedRow(store, Bind(w), stamp)
          IN  /\ store' = Append(store, row)
              /\ statements' = Append(statements,
                    [by |-> w, values |-> Bind(w), ok |-> TRUE])
              /\ saved' = [saved EXCEPT ![w] = Some(Ok(row))]
    /\ pc' = [pc EXCEPT ![w] = "saved"]
    /\ UNCHANGED <<overflow_checks, request, execution, position, cleaned,
                   cmd_idx, step_idx, trail, response, shift_vars>>

\* a plausible slip: the row is written although the statement reports failure
SaveErrRowKept(w) ==
    /\ pc[w] = "computed"
    /\ \E stamp \in Stamps :
          store' = Append(store, InsertedRow(store, Bind(w), stamp))
    /\ statements' = Append(statements,
          [by |-> w, values |-> Bind(w), ok |-> FALSE])
    /\ saved' = [saved EXCEPT ![w] = Some(Err)]
    /\ pc' = [pc EXCEPT ![w] = "saved"]
    /\ UNCHANGED <<overflow_checks, request, execution, position, cleaned,
                   cmd_idx, step_idx, trail, response, shift_vars>>

\* save, the insert failing (store unreachable, write rejected, pool
\* exhausted): `?` returns the SqlError, nothing is written
SaveErr(w) ==
    /\ pc[w] = "computed"
    /\ statements' = Append(statements,
          [by |-> w, values |-> Bind(w), ok |-> FALSE])
    /\ saved' = [saved EXCEPT ![w] = Some(Err)]
    /\ pc' = [pc EXCEPT ![w] = "saved"]
    /\ UNCHANGED <<overflow_checks, request, execution, position, cleaned,
                   cmd_idx, step_idx, trail, response, store, shift_vars>>

\* ------------------------------------------ handle_enter_path (api.rs)
\* format!("{:.6}", d): the whole seconds and the six decimals
FormatDuration(d) == <<d[1] \div d[2], d[1] % d[2]>>

\* impl From<Execution> for Response
ResponseFrom(e) ==
    [id |-> e.id,
     timestamp |-> IF e.timestamp.some
                   THEN Some(<<e.timestamp.val, "Local">>) ELSE None,
     commands |-> e.commands,
     result |-> e.result,
     duration |-> IF e.duration.some
                  THEN Some(FormatDuration(e.duration.val)) ELSE None]

\* save returned Ok: the handler answers with the stored record
Respond(w) ==
    /\ pc[w] = "saved"
    /\ saved[w].val.ok
    /\ response' = [response EXCEPT ![w] = Some(ResponseFrom(saved[w].val.val))]
    /\ pc' = [pc EXCEPT ![w] = "responded"]
    /\ UNCHANGED <<overflow_checks, request, execution, position, cleaned,
                   cmd_idx, step_idx, trail, saved, store, statements,
                   shift_vars>>

\* a plausible slip: the handler runs save again after an error
ExpectRetry(w) ==
    /\ pc[w] = "saved"
    /\ ~saved[w].val.ok
    /\ saved' = [saved EXCEPT ![w] = None]
    /\ pc' = [pc EXCEPT ![w] = "computed"]
    /\ UNCHANGED <<overflow_checks, request, execution, position, cleaned,
                   cmd_idx, step_idx, trail, response, store, statements,
                   shift_vars>>

\* save returned Err: .expect("Unable to save execution to database") panics
ExpectPanic(w) ==
    /\ pc[w] = "saved"
    /\ ~saved[w].val.ok
    /\ pc' = [pc EXCEPT ![w] = "expect_panic"]
    /\ UNCHANGED <<overflow_checks, request, execution, position, cleaned,
                   cmd_idx, step_idx, trail, saved, response, store,
                   statements, shift_vars>>

\* --------------------------------------- Position::shift, called directly
ApplyShift(d) ==
    /\ shift_dir' = Some(d)
    /\ shift_out' = Some(Shift(overflow_checks, shift_self, d))
    /\ UNCHANGED <<overflow_checks, shift_self, handler_vars>>

\* ------------------------------------------------------ specifications
\* the handlers in `active` have received their request, the others none
HandlersInit(given, active) ==
    /\ request = given
    /\ pc = [w \in Handlers |-> IF w \in active THEN "received" ELSE "idle"]
    /\ execution = [w \in Handlers |-> ExecutionDefault]
    /\ position = [w \in Handlers |-> given[w].start]
    /\ cleaned = [w \in Handlers |-> {}]
    /\ cmd_idx = [w \in Handlers |-> 1]
    /\ step_idx = [w \in Handlers |-> 0]
    /\ trail = [w \in Handlers |-> <<>>]
    /\ saved = [w \in Handlers |-> None]
    /\ response = [w \in Handlers |-> None]
    /\ store = <<>>
    /\ statements = <<>>

ShiftIdle ==
    /\ shift_self = Position(0, 0)
    /\ shift_dir = None
    /\ shift_out = None

\* one request, handled alone
Init ==
    /\ overflow_checks \in BOOLEAN
    /\ \E r \in Requests :
          HandlersInit([w \in Handlers |-> IF w = 1 THEN r ELSE NoRequest], {1})
    /\ ShiftIdle

\* every handler has a request; they run in parallel
InitPar ==
    /\ overflow_checks \in BOOLEAN
    /\ \E given \in [Handlers -> ParRequests] : HandlersInit(given, Handlers)
    /\ ShiftIdle

\* Position::shift as a pure function of its inputs
InitShift ==
    /\ overflow_checks \in BOOLEAN
    /\ HandlersInit([w \in Handlers |-> NoRequest], {})
    /\ shift_self \in ShiftInputs
    /\ shift_dir = None
    /\ shift_out = None

Next ==
    \E w \in Handlers :
        \/ CalculateBegin(w)
        \/ CalculateStep(w)
        \/ CalculateNextCommand(w)
        \/ CalculateEnd(w)
        \/ SaveOk(w)
        \/ SaveErr(w)
        \/ Respond(w)
        \/ ExpectPanic(w)

NextShift == \E d \in Directions : ApplyShift(d)

Spec == Init /\ [][Next]_vars

SpecPar == InitPar /\ [][Next]_vars

SpecShift == InitShift /\ [][NextShift]_vars

\* ------------------------------------------------------------ the claims
\* calculate has returned its record
Computed(w) == pc[w] \in {"computed", "saved", "responded", "expect_panic"}

\* the handler has ended, with an answer or with a panic
Ended(w) == pc[w] \in {"responded", "expect_panic", "overflow_panic"}

\* the cells the robot occupied right after each executed unit step
TrailCells(w) == {trail[w][i] : i \in DOMAIN trail[w]}

CandidateBeyondLimit(p, d) ==
    LET m == FromDirection(d)
    IN  \/ AddOverflows(p.x, m.x)
        \/ AddOverflows(p.y, m.y)
        \/ ~InField(Position(p.x + m.x, p.y + m.y))

\* no `+` and no abs of this shift leaves the i32 range
ArithmeticInRange(p, d) == Shift(TRUE, p, d).ok

AboutToStep(w) ==
    /\ pc[w] = "walking"
    /\ cmd_idx[w] <= Len(request[w].commands)
    /\ StepsPending(w)

\* the handler has just run the inner loop's body (or panicked in it)
Stepped(w) ==
    /\ AboutToStep(w)
    /\ (trail'[w] # trail[w] \/ pc'[w] = "overflow_panic")

\* the requests that only push against the edge from a cell on the edge
PushesOnlyAgainstEdge(r) ==
    /\ InField(r.start)
    /\ \E i \in DOMAIN r.commands : r.commands[i].steps > 0
    /\ \A i \in DOMAIN r.commands :
          r.commands[i].steps > 0
              => CandidateBeyondLimit(r.start, r.commands[i].direction)

\* C3 as stated: in calculate every unit step whose candidate position has
\* an absolute coordinate above 100000 leaves the current position unchanged
\* and still inserts that unchanged position into the visited set; a walk
\* that only pushes against the boundary from a boundary cell yields 1.
C3_BeyondLimitStepIsDiscardedAndRecorded ==
    /\ [][\A w \in Handlers :
            (Stepped(w) /\ CandidateBeyondLimit(position[w],
                                                CurrentCommand(w).direction))
                => /\ pc'[w] = "walking"
                   /\ position'[w] = position[w]
                   /\ position[w] \in cleaned'[w]]_vars
    /\ [](\A w \in Handlers :
            (Computed(w) /\ PushesOnlyAgainstEdge(request[w]))
                => execution[w].result = 1)

\* C3 on the steps whose arithmetic stays within i32: what remains true
C3_InRangeStepIsDiscardedAndRecorded ==
    /\ [][\A w \in Handlers :
            (/\ Stepped(w)
             /\ ArithmeticInRange(position[w], CurrentCommand(w).direction)
             /\ CandidateBeyondLimit(position[w], CurrentCommand(w).direction))
                => /\ pc'[w] = "walking"
                   /\ position'[w] = position[w]
                   /\ position[w] \in cleaned'[w]]_vars
    /\ [](\A w \in Handlers :
            (Computed(w) /\ PushesOnlyAgainstEdge(request[w]))
                => execution[w].result = 1)

\* C9 as stated: the walker raises no error for any input; for any i32 start
\* and any moves, no unit step of calculate overflows the coordinate
\* addition of Position::add or the absolute value of out_of_bounds, and no
\* step aborts the walk.
C9_NoStepOverflowsOrAborts ==
    \A w \in Handlers :
        /\ pc[w] # "overflow_panic"
        /\ (AboutToStep(w)
                => ArithmeticInRange(position[w], CurrentCommand(w).direction))

\* C4: the move_count calculate produces is the number of moves of the
\* request, whatever the moves' step counts, however many unit steps were
\* clamped, and whatever the start position.
C4_MoveCountIsNumberOfMoves ==
    \A w \in Handlers :
        /\ pc[w] \notin {"idle", "received"}
              => execution[w].commands = Len(request[w].commands)
        /\ (saved[w].some /\ saved[w].val.ok)
              => saved[w].val.val.commands = Len(request[w].commands)

\* two moves, four unit steps, some of them clamped at the edge
C4_Witness ==
    \E w \in Handlers :
        /\ Computed(w)
        /\ execution[w].commands = 2
        /\ Len(trail[w]) = 4
        /\ execution[w].result < 3
        /\ request[w].start = Position(FIELD_LIMIT, FIELD_LIMIT - 1)

\* every move of the request has 0 steps (the empty request included)
AllZeroSteps(r) == \A i \in DOMAIN r.commands : r.commands[i].steps = 0

\* C5: a move with 0 steps changes neither the current position nor the
\* visited set; so a request whose moves all have 0 steps (the empty one
\* included) yields result 0, with move_count 0 for the empty sequence and
\* 1 for a single 0-step move, for any start position.
C5_ZeroStepMoveChangesNothing ==
    /\ [][\A w \in Handlers :
            (/\ pc[w] = "walking"
             /\ cmd_idx[w] <= Len(request[w].commands)
             /\ CurrentCommand(w).steps = 0)
                => /\ position'[w] = position[w]
                   /\ cleaned'[w] = cleaned[w]
                   /\ pc'[w] = "walking"]_vars
    /\ [](\A w \in Handlers :
            AllZeroSteps(request[w]) =>
                /\ pc[w] # "overflow_panic"
                /\ Computed(w) =>
                      /\ execution[w].result = 0
                      /\ cleaned[w] = {}
                      /\ position[w] = request[w].start
                      /\ (Len(request[w].commands) = 0
                              => execution[w].commands = 0)
                      /\ (Len(request[w].commands) = 1
                              => execution[w].commands = 1))

\* a single 0-step move from a start at the i32 limit: computed, result 0
C5_Witness ==
    \E w \in Handlers :
        /\ Computed(w)
        /\ Len(request[w].commands) = 1
        /\ request[w].commands[1].steps = 0
        /\ request[w].start = Position(I32_MAX, 0)
        /\ execution[w].result = 0
        /\ execution[w].commands = 1

\* ------------- calculate run alone, as a function of the build and request
RECURSIVE StepsAlone(_, _, _, _, _)
\* `for _ in 1..=steps { position = position.shift(..); cleaned.insert(..) }`
StepsAlone(checks, pos, set, direction, steps) ==
    IF steps <= 0 THEN Ok([position |-> pos, cleaned |-> set])
    ELSE LET shifted == Shift(checks, pos, direction)
         IN  IF ~shifted.ok THEN Panicked
             ELSE StepsAlone(checks, shifted.val, set \cup {shifted.val},
                             direction, steps - 1)

RECURSIVE CommandsAlone(_, _, _, _)
\* `for command in commands { ... }`
CommandsAlone(checks, pos, set, commands) ==
    IF commands = <<>> THEN Ok([position |-> pos, cleaned |-> set])
    ELSE LET walked == StepsAlone(checks, pos, set, Head(commands).direction,
                                  Head(commands).steps)
         IN  IF ~walked.ok THEN Panicked
             ELSE CommandsAlone(checks, walked.val.position,
                                walked.val.cleaned, Tail(commands))

\* Execution::calculate applied to one request with nothing else running
CalculateAlone(checks, r) ==
    LET walked == CommandsAlone(checks, r.start, {}, r.commands)
    IN  IF ~walked.ok THEN Panicked
        ELSE Ok([commands |-> Len(r.commands),
                 result |-> Cardinality(walked.val.cleaned)])

\* C6: the same request always yields the same move_count and result,
\* walked alone, repeatedly, or while other requests are walked in parallel
\* with their unit steps interleaved: each walk's position and visited set
\* are its own and no walk's outcome depends on another's.
C6_WalksAreIndependent ==
    \A w \in Handlers :
        LET alone == CalculateAlone(overflow_checks, request[w])
        IN  /\ Computed(w) =>
                  /\ alone.ok
                  /\ execution[w].commands = alone.val.commands
                  /\ execution[w].result = alone.val.result
            /\ pc[w] = "overflow_panic" => ~alone.ok
            /\ cleaned[w] = TrailCells(w)
            /\ position[w] = IF trail[w] = <<>> THEN request[w].start
                             ELSE trail[w][Len(trail[w])]
            /\ \A v \in Handlers :
                  (request[v] = request[w] /\ Computed(v) /\ Computed(w))
                      => /\ execution[v].commands = execution[w].commands
                         /\ execution[v].result = execution[w].result

\* one walk of a request has returned while another walk of the same
\* request is in the middle of its steps
C6_Witness ==
    \E w, v \in Handlers :
        /\ w # v
        /\ request[w] = request[v]
        /\ Computed(w)
        /\ execution[w].result = 2
        /\ pc[v] = "walking"
        /\ Len(trail[v]) = 1
        /\ AboutToStep(v)

\* the rows of the store, as a set
StoredRows == {store[i] : i \in DOMAIN store}

\* the statements a handler issued, and the statements that succeeded
StatementsBy(w) == {i \in DOMAIN statements : statements[i].by = w}
OkStatements == {i \in DOMAIN statements : statements[i].ok}

\* C7: a successful save returns a record whose move_count, result and
\* duration are exactly those of the record that was saved and whose
\* identity and timestamp are both present; identity and timestamp are
\* absent on every record before persistence (Execution::default and the
\* output of calculate), and save does not modify the record it is called on.
C7_SaveRoundTrip ==
    /\ [](\A w \in Handlers :
            /\ ~execution[w].id.some
            /\ ~execution[w].timestamp.some
            /\ (saved[w].some /\ saved[w].val.ok) =>
                  LET row == saved[w].val.val
                  IN  /\ row.commands = execution[w].commands
                      /\ row.result = execution[w].result
                      /\ row.duration = execution[w].duration
                      /\ row.id.some
                      /\ row.timestamp.some
                      /\ row \in StoredRows)
    /\ [][\A w \in Handlers :
            pc[w] = "computed" => execution'[w] = execution[w]]_vars

\* a saved record of a walk with one move over two cells that took a
\* microsecond: the returned row carries 1, 2 and 1/1000000 s
C7_Witness ==
    \E w \in Handlers :
        /\ pc[w] = "saved"
        /\ saved[w].some
        /\ saved[w].val.ok
        /\ saved[w].val.val.commands = 1
        /\ saved[w].val.val.result = 2
        /\ saved[w].val.val.duration = Some(Seconds(1))
        /\ saved[w].val.val.id = Some(1)
        /\ ~execution[w].id.some

\* C8: when the insert of save fails, the failure reaches the caller as an
\* error, the insert is not retried, no row of that request is in the store
\* and the handler produces no response: every request ends either with a
\* record that is fully computed and persisted, or with a failure and
\* nothing stored.
C8_FailedSaveFailsTheRequest ==
    \A w \in Handlers :
        /\ Cardinality(StatementsBy(w)) <= 1
        /\ Len(store) = Cardinality(OkStatements)
        /\ response[w].some => pc[w] = "responded"
        /\ (saved[w].some /\ ~saved[w].val.ok) =>
              /\ pc[w] \in {"saved", "expect_panic"}
              /\ Cardinality(StatementsBy(w)) = 1
              /\ StatementsBy(w) \cap OkStatements = {}
              /\ ~response[w].some
        /\ pc[w] = "expect_panic" => (saved[w].some /\ ~saved[w].val.ok)
        /\ Ended(w) =>
              \/ /\ pc[w] = "responded"
                 /\ saved[w].some /\ saved[w].val.ok
                 /\ saved[w].val.val \in StoredRows
                 /\ saved[w].val.val.duration.some
                 /\ saved[w].val.val.commands = Len(request[w].commands)
                 /\ saved[w].val.val.result = Cardinality(TrailCells(w))
                 /\ response[w] = Some(ResponseFrom(saved[w].val.val))
              \/ /\ pc[w] \in {"expect_panic", "overflow_panic"}
                 /\ ~response[w].some
                 /\ StatementsBy(w) \cap OkStatements = {}

\* a computed walk whose insert failed: the handler panicked on the error,
\* one statement was issued, the store is empty, there is no response
C8_Witness ==
    \E w \in Handlers :
        /\ pc[w] = "expect_panic"
        /\ execution[w].result = 2
        /\ Cardinality(StatementsBy(w)) = 1
        /\ store = <<>>
        /\ ~response[w].some

\* C10 as stated: over any interleaving of handled requests each request
\* issues exactly one insert, only after its walk has finished and carrying
\* that walk's move_count, result and duration; the number of stored rows
\* is the number of successful saves; a stored row is never updated or
\* deleted.
C10_OneInsertPerRequest ==
    /\ [](/\ \A w \in Handlers :
               /\ Ended(w) => Cardinality(StatementsBy(w)) = 1
               /\ \A i \in StatementsBy(w) :
                     /\ Computed(w)
                     /\ statements[i].values = Bind(w)
          /\ Len(store) = Cardinality(OkStatements))
    /\ [][\A i \in DOMAIN store :
            i \in DOMAIN store' /\ store'[i] = store[i]]_vars

\* C10 for the requests whose walk returns: what remains true
C10_OneInsertPerComputedRecord ==
    /\ [](/\ \A w \in Handlers :
               /\ Cardinality(StatementsBy(w)) <= 1
               /\ (Ended(w) /\ Computed(w))
                     => Cardinality(StatementsBy(w)) = 1
               /\ \A i \in StatementsBy(w) :
                     /\ Computed(w)
                     /\ statements[i].values = Bind(w)
          /\ Len(store) = Cardinality(OkStatements))
    /\ [][\A i \in DOMAIN store :
            i \in DOMAIN store' /\ store'[i] = store[i]]_vars

\* the cell one unit from p along the commanded axis, as integers
UnitStepFrom(p, d) ==
    CASE d = "North" -> Position(p.x, p.y + 1)
      [] d = "South" -> Position(p.x, p.y - 1)
      [] d = "East"  -> Position(p.x + 1, p.y)
      [] d = "West"  -> Position(p.x - 1, p.y)

\* the unit step from p in direction d stays within the i32 range
UnitStepRepresentable(p, d) ==
    LET m == FromDirection(d)
    IN  ~AddOverflows(p.x, m.x) /\ ~AddOverflows(p.y, m.y)

\* a and b are equal or one apart, as integers
AtMostOneApart(a, b) ==
    \/ a = b
    \/ b < I32_MAX /\ a = b + 1
    \/ b > I32_MIN /\ a = b - 1

\* C11 as stated: a unit step that is not clamped changes exactly the
\* commanded axis by exactly one and leaves the other coordinate unchanged
\* (North (x, y+1), South (x, y-1), East (x+1, y), West (x-1, y)); so after
\* any shift the result differs from the input in at most one coordinate
\* and by at most 1.
C11_UnitStepMovesOneCellOnOneAxis ==
    (shift_out.some /\ shift_out.val.ok) =>
        LET out == shift_out.val.val
        IN  /\ out # shift_self =>
                  /\ UnitStepRepresentable(shift_self, shift_dir.val)
                  /\ out = UnitStepFrom(shift_self, shift_dir.val)
            /\ \/ out.x = shift_self.x /\ AtMostOneApart(out.y, shift_self.y)
               \/ out.y = shift_self.y /\ AtMostOneApart(out.x, shift_self.x)

\* C11 on the shifts whose arithmetic stays within i32: what remains true
C11_InRangeUnitStepMovesOneCellOnOneAxis ==
    (shift_out.some /\ ArithmeticInRange(shift_self, shift_dir.val)) =>
        LET out == shift_out.val.val
        IN  /\ shift_out.val.ok
            /\ out # shift_self => out = UnitStepFrom(shift_self, shift_dir.val)
            /\ ~CandidateBeyondLimit(shift_self, shift_dir.val)
                  => out = UnitStepFrom(shift_self, shift_dir.val)
            /\ \/ out.x = shift_self.x /\ AtMostOneApart(out.y, shift_self.y)
               \/ out.y = shift_self.y /\ AtMostOneApart(out.x, shift_self.x)

\* C13: if the start position has both coordinates within
\* [-100000, 100000], then after every unit step of calculate the current
\* position has both coordinates within that range, and so has every
\* position in the visited set.
C13_WalkFromFieldStaysInField ==
    \A w \in Handlers :
        (pc[w] \notin {"idle", "received"} /\ InField(request[w].start)) =>
            /\ pc[w] # "overflow_panic"
            /\ InField(position[w])
            /\ \A c \in cleaned[w] : InField(c)
            /\ \A i \in DOMAIN trail[w] : InField(trail[w][i])

\* a walk from inside the field that reached the edge, pushed against it
\* and recorded the edge cell
C13_Witness ==
    \E w \in Handlers :
        /\ Computed(w)
        /\ request[w].start = Position(FIELD_LIMIT, FIELD_LIMIT - 1)
        /\ Len(request[w].commands) = 1
        /\ request[w].commands[1] = [direction |-> "North", steps |-> 2]
        /\ trail[w] = <<Position(FIELD_LIMIT, FIELD_LIMIT),
                        Position(FIELD_LIMIT, FIELD_LIMIT)>>
        /\ cleaned[w] = {Position(FIELD_LIMIT, FIELD_LIMIT)}

\* C15: a move whose step count is negative is executed as zero unit steps:
\* it leaves the position and the visited set unchanged, never moves the
\* robot in the opposite direction, and is still counted once in move_count.
C15_NegativeStepMoveIsSkipped ==
    /\ [][\A w \in Handlers :
            (/\ pc[w] = "walking"
             /\ cmd_idx[w] <= Len(request[w].commands)
             /\ CurrentCommand(w).steps < 0)
                => /\ position'[w] = position[w]
                   /\ cleaned'[w] = cleaned[w]
                   /\ trail'[w] = trail[w]
                   /\ pc'[w] = "walking"
                   /\ cmd_idx'[w] \in {cmd_idx[w], cmd_idx[w] + 1}]_vars
    /\ [](\A w \in Handlers :
            Computed(w) =>
                /\ execution[w].commands = Len(request[w].commands)
                /\ (\A i \in DOMAIN request[w].commands :
                        request[w].commands[i].steps < 0)
                      => /\ position[w] = request[w].start
                         /\ cleaned[w] = {}
                         /\ execution[w].result = 0)

\* East x1 then West x-1 from (0,0): the robot ends on (1,0), not back on
\* the start, with one cell cleaned and two moves counted
C15_Witness ==
    \E w \in Handlers :
        /\ Computed(w)
        /\ request[w].start = Position(0, 0)
        /\ request[w].commands = <<[direction |-> "East", steps |-> 1],
                                   [direction |-> "West", steps |-> -1]>>
        /\ position[w] = Position(1, 0)
        /\ cleaned[w] = {Position(1, 0)}
        /\ execution[w].result = 1
        /\ execution[w].commands = 2

RECURSIVE StepsOfFirst(_, _)
\* the sum of the step counts of the first n commands
StepsOfFirst(commands, n) ==
    IF n = 0 THEN 0 ELSE StepsOfFirst(commands, n - 1) + commands[n].steps

\* every step count of the request is non-negative
NonNegativeSteps(r) == \A i \in DOMAIN r.commands : r.commands[i].steps >= 0

\* the move that the i-th unit step of the request belongs to
MoveOfStep(r, i) ==
    CHOOSE k \in DOMAIN r.commands :
        /\ StepsOfFirst(r.commands, k - 1) < i
        /\ i <= StepsOfFirst(r.commands, k)

\* the walk has done exactly the unit steps that precede its place in the
\* loops, in request order: the i-th position of its trail is the shift of
\* the one before (the start for the first) in the direction of the move
\* that the i-th unit step of the request belongs to
TrailIsInOrder(w) ==
    LET r == request[w]
        taken == StepsOfFirst(r.commands, cmd_idx[w] - 1) + step_idx[w]
    IN  /\ Len(trail[w]) = taken
        /\ \A i \in DOMAIN trail[w] :
              LET before == IF i = 1 THEN r.start ELSE trail[w][i - 1]
                  shifted == Shift(overflow_checks, before,
                                   r.commands[MoveOfStep(r, i)].direction)
              IN  shifted.ok /\ trail[w][i] = shifted.val
        /\ cleaned[w] = TrailCells(w)

\* C12 as stated: for every request with a finite move sequence and
\* non-negative step counts calculate terminates: it processes the moves
\* strictly in request order, performs exactly the sum of all step counts
\* unit steps (one shift and one insert each, clamped steps included) and
\* then returns the record; no move is skipped, repeated or reordered.
C12_WalkTakesEveryStepInOrderAndReturns ==
    \A w \in Handlers :
        (pc[w] \notin {"idle", "received"} /\ NonNegativeSteps(request[w])) =>
            /\ pc[w] # "overflow_panic"
            /\ cmd_idx[w] <= Len(request[w].commands) + 1
            /\ (pc[w] = "walking" /\ cmd_idx[w] <= Len(request[w].commands))
                  => step_idx[w] <= CurrentCommand(w).steps
            /\ pc[w] = "walking" => TrailIsInOrder(w)
            /\ Computed(w) =>
                  /\ cmd_idx[w] = Len(request[w].commands) + 1
                  /\ Len(trail[w])
                        = StepsOfFirst(request[w].commands,
                                       Len(request[w].commands))
                  /\ TrailIsInOrder(w)

\* C12 for the walks no step of which overflows: what remains true
C12_WalkTakesEveryStepInOrderUnlessOverflow ==
    \A w \in Handlers :
        (pc[w] \notin {"idle", "received"} /\ NonNegativeSteps(request[w])) =>
            /\ pc[w] = "overflow_panic"
                  => ~CalculateAlone(overflow_checks, request[w]).ok
            /\ cmd_idx[w] <= Len(request[w].commands) + 1
            /\ (pc[w] = "walking" /\ cmd_idx[w] <= Len(request[w].commands))
                  => step_idx[w] <= CurrentCommand(w).steps
            /\ pc[w] = "walking" => TrailIsInOrder(w)
            /\ Computed(w) =>
                  /\ cmd_idx[w] = Len(request[w].commands) + 1
                  /\ Len(trail[w])
                        = StepsOfFirst(request[w].commands,
                                       Len(request[w].commands))
                  /\ TrailIsInOrder(w)

\* every handler that can take a step eventually takes one (the runtime
\* polls every ready task)
HandlerStep(w) ==
    \/ CalculateBegin(w)
    \/ CalculateStep(w)
    \/ CalculateNextCommand(w)
    \/ CalculateEnd(w)
    \/ SaveOk(w)
    \/ SaveErr(w)
    \/ Respond(w)
    \/ ExpectPanic(w)

SpecFair == Spec /\ \A w \in Handlers : WF_vars(HandlerStep(w))

\* under that scheduling calculate comes to an end: it returns its record,
\* or the overflow panic of C9 unwinds it
C12_CalculateComesToAnEnd ==
    \A w \in Handlers :
        pc[w] = "received" ~> (Computed(w) \/ pc[w] = "overflow_panic")

\* |c| + 1 does not fit in an i32
AtI32Limit(c) == c = I32_MIN \/ c = -I32_MAX \/ c = I32_MAX

\* |c| exceeds FIELD_LIMIT + 1, and |c| + 1 still fits in an i32
FarOutside(c) ==
    /\ ~AtI32Limit(c)
    /\ (c > FIELD_LIMIT + 1 \/ c < -(FIELD_LIMIT + 1))

\* |c| is within the field's range
WithinLimit(c) == -FIELD_LIMIT <= c /\ c <= FIELD_LIMIT

\* the directions that lead into the field from a cell with one coordinate
\* of absolute value exactly FIELD_LIMIT + 1 and the other within the range
InwardDirections(p) ==
    {d \in Directions :
        \/ d = "West"  /\ p.x = FIELD_LIMIT + 1    /\ WithinLimit(p.y)
        \/ d = "East"  /\ p.x = -(FIELD_LIMIT + 1) /\ WithinLimit(p.y)
        \/ d = "South" /\ p.y = FIELD_LIMIT + 1    /\ WithinLimit(p.x)
        \/ d = "North" /\ p.y = -(FIELD_LIMIT + 1) /\ WithinLimit(p.x)}

\* some move of the request takes at least one unit step
TakesAStep(r) == \E i \in DOMAIN r.commands : r.commands[i].steps >= 1

\* what C14 says of a walk from `start`, from the head of calculate on
StuckOutsideOrStepsInward(w) ==
    /\ (FarOutside(request[w].start.x) \/ FarOutside(request[w].start.y)) =>
          /\ position[w] = request[w].start
          /\ cleaned[w] \subseteq {request[w].start}
          /\ \A i \in DOMAIN trail[w] : trail[w][i] = request[w].start
          /\ Computed(w) =>
                execution[w].result = IF TakesAStep(request[w]) THEN 1 ELSE 0
    /\ (/\ Computed(w)
        /\ Len(request[w].commands) = 1
        /\ request[w].commands[1].steps = 1
        /\ request[w].commands[1].direction
              \in InwardDirections(request[w].start)) =>
          /\ position[w]
                = UnitStepFrom(request[w].start,
                               request[w].commands[1].direction)
          /\ InField(position[w])
          /\ execution[w].result = 1

\* C14 as stated: if the start has a coordinate whose absolute value exceeds
\* FIELD_LIMIT + 1 (and is small enough that adding 1 does not overflow 32
\* bits), every unit step is discarded, the robot never leaves the start
\* cell, and result is 1 when some move has at least one step and 0
\* otherwise; a start with an offending coordinate of absolute value
\* exactly FIELD_LIMIT + 1 (other coordinate in range) can still step
\* inward into the grid.
C14_FarOutsideStartNeverMoves ==
    \A w \in Handlers :
        pc[w] \notin {"idle", "received"} =>
            /\ (FarOutside(request[w].start.x)
                    \/ FarOutside(request[w].start.y))
                  => pc[w] # "overflow_panic"
            /\ StuckOutsideOrStepsInward(w)

\* C14 with the other coordinate clear of the i32 limits as well: what
\* remains true
C14_FarOutsideStartNeverMovesClearOfLimits ==
    \A w \in Handlers :
        pc[w] \notin {"idle", "received"} =>
            /\ (/\ FarOutside(request[w].start.x)
                      \/ FarOutside(request[w].start.y)
                /\ ~AtI32Limit(request[w].start.x)
                /\ ~AtI32Limit(request[w].start.y))
                  => pc[w] # "overflow_panic"
            /\ StuckOutsideOrStepsInward(w)

====
